---- MODULE Spec2Model ----
(***************************************************************************)
(* Model of ml-server/server.py: the wheat grain detection API.            *)
(*                                                                         *)
(* Numbers.  Form parameters (confidence, iou) are carried in hundredths   *)
(* (25 stands for 0.25).  A quality percentage is an exact rational        *)
(* [num, den]; the reported, rounded percentage is an integer number of    *)
(* hundredths of a percent (9500 stands for 95.0).  A detected box is      *)
(* represented by its class id: coordinates and the box confidence do not  *)
(* influence any label, count, percentage, grade or status.                *)
(* Grade strings are the English renderings of the Russian literals.       *)
(***************************************************************************)
EXTENDS Integers, Sequences, FiniteSets, TLC

VARIABLES
    request,        \* the request last handled (endpoint and inputs)
    response,       \* the response the client observed for it
    predictCalls,   \* keyword arguments of each model.predict call it made
    args,           \* input of a pure computation
    ret,            \* its result
    pc,             \* per request task: position in its handler
    running,        \* the task holding the event loop (0: none)
    predicting,     \* tasks currently inside model.predict
    filesLeft       \* per request task: files still to process

vars == <<request, response, predictCalls, args, ret,
          pc, running, predicting, filesLeft>>

(***************************************************************************)
(* Bounds                                                                  *)
(***************************************************************************)
MaxClassId == 3
MaxBoxes == 2
MaxBatchBoxes == 1
MaxFiles == 2

ClassIds == 0..MaxClassId

BoxSeqs(n) == UNION {[1..k -> ClassIds] : k \in 0..n}

\* confidence / iou values a client can submit, in hundredths
FormValues == {-50, 0, 25, 45, 100, 150}

ContentTypes == {"image/jpeg", "text/plain", "None"}

Outcomes == {"ok", "read_error", "decode_error", "predict_error"}

\* An upload together with what reading, decoding and inference do with it.
UploadFiles(types, n) ==
    {[content_type |-> t, outcome |-> o, boxes |-> b] :
        t \in types, o \in Outcomes \ {"ok"}, b \in {<<>>}}
    \cup {[content_type |-> t, outcome |-> "ok", boxes |-> b] :
        t \in types, b \in BoxSeqs(n)}

(***************************************************************************)
(* Class vocabulary                                                        *)
(***************************************************************************)
CLASS_NAMES == (0 :> "good") @@ (1 :> "bad") @@ (2 :> "impurity")

\* CLASS_NAMES.get(class_id, f"unknown_{class_id}")
ClassNamesGet(class_id) ==
    IF class_id \in DOMAIN CLASS_NAMES THEN CLASS_NAMES[class_id]
    ELSE "unknown_" \o ToString(class_id)

\* CLASS_NAMES[class_id] raises KeyError for an id that is not a key
RaisesKeyError(boxes) ==
    \E i \in DOMAIN boxes : boxes[i] \notin DOMAIN CLASS_NAMES

(***************************************************************************)
(* Statistics                                                              *)
(***************************************************************************)
\* mutant: impurity counted as whatever is neither good nor bad
CountClassElse(detections, name) ==
    Cardinality({i \in DOMAIN detections :
        \/ detections[i].class = name
        \/ name = "impurity" /\ detections[i].class \notin {"good", "bad"}})

\* sum(1 for d in detections if d["class"] == name)
CountClass(detections, name) ==
    Cardinality({i \in DOMAIN detections : detections[i].class = name})

\* mutant: an empty detection set reported as fully good
QualityPercentageEmptyFull(good_count, total_count) ==
    IF total_count > 0 THEN [num |-> good_count * 100, den |-> total_count]
    ELSE [num |-> 100, den |-> 1]

\* (good_count / total_count * 100) if total_count > 0 else 0
QualityPercentage(good_count, total_count) ==
    IF total_count > 0 THEN [num |-> good_count * 100, den |-> total_count]
    ELSE [num |-> 0, den |-> 1]

\* round(x, 2) of a non-negative rational, in hundredths (ties to even)
Round2(x) ==
    LET s == x.num * 100
        q == s \div x.den
        r == s % x.den
    IN  IF 2 * r < x.den THEN q
        ELSE IF 2 * r > x.den THEN q + 1
        ELSE IF q % 2 = 0 THEN q ELSE q + 1

\* mutant: the thresholds taken as exclusive
get_quality_grade_exclusive(percentage) ==
    IF percentage.num > 95 * percentage.den THEN "Excellent (A)"
    ELSE IF percentage.num > 85 * percentage.den THEN "Good (B)"
    ELSE IF percentage.num > 75 * percentage.den THEN "Satisfactory (C)"
    ELSE IF percentage.num > 60 * percentage.den THEN "Poor (D)"
    ELSE "Very Poor (F)"

get_quality_grade(percentage) ==
    IF percentage.num >= 95 * percentage.den THEN "Excellent (A)"
    ELSE IF percentage.num >= 85 * percentage.den THEN "Good (B)"
    ELSE IF percentage.num >= 75 * percentage.den THEN "Satisfactory (C)"
    ELSE IF percentage.num >= 60 * percentage.den THEN "Poor (D)"
    ELSE "Very Poor (F)"

\* the statistics dict of /detect and /detect-with-image
StatisticsOf(good_count, bad_count, impurity_count, total_count) ==
    LET quality_percentage == QualityPercentage(good_count, total_count)
    IN  [total_grains |-> total_count,
         good |-> good_count,
         bad |-> bad_count,
         impurity |-> impurity_count,
         quality_percentage |-> Round2(quality_percentage),
         quality_grade |-> get_quality_grade(quality_percentage)]

Statistics(detections) ==
    StatisticsOf(CountClass(detections, "good"),
                 CountClass(detections, "bad"),
                 CountClass(detections, "impurity"),
                 Len(detections))

(***************************************************************************)
(* Request handlers                                                        *)
(***************************************************************************)
\* content_type.startswith('image/')
StartsWithImage(content_type) == content_type \in {"image/jpeg", "image/png"}

\* Form(..., ge=0.0, le=1.0): the framework rejects the request before the handler
FormInRange(v) == 0 <= v /\ v <= 100

\* except Exception as e: raise HTTPException(status_code=500, detail=str(e))
ExceptException(exc, calls) ==
    [response |-> [status |-> 500, detail |-> exc], calls |-> calls]

\* the detection list built by /detect
DetectDetections(boxes) ==
    [idx \in 1..Len(boxes) |->
        [id |-> idx - 1, class |-> ClassNamesGet(boxes[idx]), class_id |-> boxes[idx]]]

\* the detection list built by /detect-with-image (only when no KeyError)
VisualDetections(boxes) ==
    [idx \in 1..Len(boxes) |->
        [id |-> idx - 1, class |-> CLASS_NAMES[boxes[idx]], class_id |-> boxes[idx]]]

detect_grains(file, confidence, iou) ==
    IF ~FormInRange(confidence) \/ ~FormInRange(iou)
    THEN [response |-> [status |-> 422, detail |-> "validation"], calls |-> <<>>]
    ELSE IF file.content_type = "None"
    THEN ExceptException("AttributeError", <<>>)
    ELSE IF ~StartsWithImage(file.content_type)
    THEN ExceptException("400: file must be an image", <<>>)
    ELSE IF file.outcome \in {"read_error", "decode_error"}
    THEN ExceptException(file.outcome, <<>>)
    ELSE LET calls == <<[conf |-> confidence, iou |-> iou]>>
         IN  IF file.outcome = "predict_error"
             THEN ExceptException(file.outcome, calls)
             ELSE LET detections == DetectDetections(file.boxes)
                  IN  [response |->
                          [status |-> 200,
                           success |-> TRUE,
                           detections |-> detections,
                           statistics |-> Statistics(detections),
                           parameters |-> [confidence_threshold |-> confidence,
                                           iou_threshold |-> iou]],
                       calls |-> calls]

\* draw_detections(image, boxes): raises KeyError at the label of an unknown id
draw_detections(boxes) ==
    IF RaisesKeyError(boxes) THEN "KeyError" ELSE "annotated"

detect_with_visualization(file, confidence, iou, return_image) ==
    IF file.outcome \in {"read_error", "decode_error"}
    THEN ExceptException(file.outcome, <<>>)
    ELSE LET calls == <<[conf |-> confidence, iou |-> iou]>>
         IN  IF file.outcome = "predict_error"
             THEN ExceptException(file.outcome, calls)
             ELSE IF RaisesKeyError(file.boxes)
             THEN ExceptException("KeyError", calls)
             ELSE IF return_image /\ draw_detections(file.boxes) = "KeyError"
             THEN ExceptException("KeyError", calls)
             ELSE LET detections == VisualDetections(file.boxes)
                  IN  [response |->
                          [status |-> 200,
                           success |-> TRUE,
                           detections |-> detections,
                           statistics |-> Statistics(detections),
                           annotated_image |-> return_image],
                       calls |-> calls]

\* sum(1 for box in detections if int(box.cls[0]) == class_id)
CountClassId(boxes, class_id) ==
    Cardinality({i \in DOMAIN boxes : boxes[i] = class_id})

\* one iteration of the loop of /batch-detect: the try body or the except branch
BatchResult(file) ==
    IF file.outcome # "ok"
    THEN [filename |-> file.filename, success |-> FALSE, error |-> file.outcome]
    ELSE LET good == CountClassId(file.boxes, 0)
             total == Len(file.boxes)
         IN  [filename |-> file.filename,
              success |-> TRUE,
              statistics |->
                  [total |-> total,
                   good |-> good,
                   bad |-> CountClassId(file.boxes, 1),
                   impurity |-> CountClassId(file.boxes, 2),
                   quality_percentage |-> Round2(QualityPercentage(good, total))]]

\* the files whose read and decode succeeded reach model.predict
BatchCalls(files, confidence) ==
    LET reached == SelectSeq(files,
                       LAMBDA f : f.outcome \in {"ok", "predict_error"})
    IN  [i \in 1..Len(reached) |-> [conf |-> confidence]]

\* mutant: the try wraps the whole loop, so the first failure ends it
BatchResultsAbort(files) ==
    LET failing == {i \in DOMAIN files : files[i].outcome # "ok"}
        last == IF failing = {} THEN Len(files)
                ELSE CHOOSE i \in failing : \A j \in failing : i <= j
    IN  [i \in 1..last |-> BatchResult(files[i])]

\* results of the loop over files
BatchResults(files) == [i \in 1..Len(files) |-> BatchResult(files[i])]

batch_detect(files, confidence) ==
    [response |-> [status |-> 200,
                   success |-> TRUE,
                   processed |-> Len(files),
                   results |-> BatchResults(files)],
     calls |-> BatchCalls(files, confidence)]

(***************************************************************************)
(* The server, one request at a time                                       *)
(***************************************************************************)
Named(f, name) ==
    [filename |-> name, content_type |-> f.content_type,
     outcome |-> f.outcome, boxes |-> f.boxes]

Idle == /\ args = [fn |-> "none"]
        /\ ret = [fn |-> "none"]
        /\ pc = <<>>
        /\ running = 0
        /\ predicting = {}
        /\ filesLeft = <<>>

Init ==
    /\ request = [endpoint |-> "none"]
    /\ response = [status |-> 0]
    /\ predictCalls = <<>>
    /\ Idle

Detect ==
    /\ request.endpoint = "none"
    /\ \E f \in UploadFiles(ContentTypes, MaxBoxes), confidence \in FormValues,
       iou \in FormValues :
        LET file == Named(f, 1)
            r == detect_grains(file, confidence, iou)
        IN  /\ request' = [endpoint |-> "/detect", file |-> file,
                           confidence |-> confidence, iou |-> iou]
            /\ response' = r.response
            /\ predictCalls' = r.calls
            /\ UNCHANGED <<args, ret, pc, running, predicting, filesLeft>>

DetectWithImage ==
    /\ request.endpoint = "none"
    /\ \E f \in UploadFiles({"image/jpeg"}, MaxBoxes), confidence \in FormValues,
       iou \in FormValues, return_image \in BOOLEAN :
        LET file == Named(f, 1)
            r == detect_with_visualization(file, confidence, iou, return_image)
        IN  /\ request' = [endpoint |-> "/detect-with-image", file |-> file,
                           confidence |-> confidence, iou |-> iou,
                           return_image |-> return_image]
            /\ response' = r.response
            /\ predictCalls' = r.calls
            /\ UNCHANGED <<args, ret, pc, running, predicting, filesLeft>>

BatchDetect ==
    /\ request.endpoint = "none"
    /\ \E n \in 1..MaxFiles, confidence \in FormValues :
        \E fs \in [1..n -> UploadFiles({"image/jpeg"}, MaxBatchBoxes)] :
            LET files == [i \in 1..n |-> Named(fs[i], i)]
                r == batch_detect(files, confidence)
            IN  /\ request' = [endpoint |-> "/batch-detect", files |-> files,
                               confidence |-> confidence]
                /\ response' = r.response
                /\ predictCalls' = r.calls
                /\ UNCHANGED <<args, ret, pc, running, predicting, filesLeft>>

\* the response has gone out; the server holds nothing of the request
Respond ==
    /\ request.endpoint # "none"
    /\ request' = [endpoint |-> "none"]
    /\ response' = [status |-> 0]
    /\ predictCalls' = <<>>
    /\ UNCHANGED <<args, ret, pc, running, predicting, filesLeft>>

Next == Detect \/ DetectWithImage \/ BatchDetect \/ Respond

Spec == Init /\ [][Next]_vars

(***************************************************************************)
(* Claims about the request handlers (specification Spec)                  *)
(***************************************************************************)
\* the label the class vocabulary prescribes for a class id
ExpectedLabel(class_id) ==
    CASE class_id = 0 -> "good"
      [] class_id = 1 -> "bad"
      [] class_id = 2 -> "impurity"
      [] OTHER -> "unknown_" \o ToString(class_id)

\* the request is a single-image request whose detector call returned boxes
DetectorReturned ==
    \/ /\ request.endpoint = "/detect"
       /\ FormInRange(request.confidence) /\ FormInRange(request.iou)
       /\ StartsWithImage(request.file.content_type)
       /\ request.file.outcome = "ok"
    \/ /\ request.endpoint = "/detect-with-image"
       /\ request.file.outcome = "ok"

Known(boxes) == \A i \in DOMAIN boxes : boxes[i] \in {0, 1, 2}

\* C1: whenever the detector returned boxes to /detect or /detect-with-image,
\* whatever their class ids, the request succeeds and every detection carries
\* the label good/bad/impurity for ids 0/1/2 and unknown_<id> for any other id.
C1_UnknownIdsLabelled ==
    DetectorReturned =>
        /\ response.status = 200
        /\ Len(response.detections) = Len(request.file.boxes)
        /\ \A i \in DOMAIN request.file.boxes :
               response.detections[i].class = ExpectedLabel(request.file.boxes[i])

\* C2: every statistics record returned by /detect, /detect-with-image and
\* /batch-detect has good + bad + impurity <= total, with equality exactly
\* when no detected box has a class id outside {0,1,2}.
C2_CountsWithinTotal ==
    /\ (request.endpoint \in {"/detect", "/detect-with-image"}
            /\ response.status = 200) =>
        LET st == response.statistics
            sum == st.good + st.bad + st.impurity
        IN  /\ st.total_grains = Len(request.file.boxes)
            /\ sum <= st.total_grains
            /\ (sum = st.total_grains <=> Known(request.file.boxes))
    /\ request.endpoint = "/batch-detect" =>
        \A i \in DOMAIN response.results :
            response.results[i].success =>
                LET st == response.results[i].statistics
                    sum == st.good + st.bad + st.impurity
                IN  /\ st.total = Len(request.files[i].boxes)
                    /\ sum <= st.total
                    /\ (sum = st.total <=> Known(request.files[i].boxes))

\* a /detect response whose detections mix a known and an unknown class id
C2_Witness ==
    /\ request.endpoint = "/detect"
    /\ response.status = 200
    /\ response.statistics.total_grains = 2
    /\ response.statistics.good = 1
    /\ ~Known(request.file.boxes)

C6_BatchIsolation ==
    request.endpoint = "/batch-detect" =>
        /\ response.status = 200
        /\ Len(response.results) = Len(request.files)
        /\ response.processed = Len(response.results)
        /\ \A i \in DOMAIN request.files :
            LET res == response.results[i]
            IN  /\ res.filename = request.files[i].filename
                /\ request.files[i].outcome # "ok" =>
                       ~res.success /\ "error" \in DOMAIN res
                /\ request.files[i].outcome = "ok" =>
                       res.success /\ "statistics" \in DOMAIN res

\* a batch whose first file fails and whose second file is processed
C6_Witness ==
    /\ request.endpoint = "/batch-detect"
    /\ Len(request.files) = 2
    /\ request.files[1].outcome = "decode_error"
    /\ request.files[2].outcome = "ok"
    /\ Len(response.results) = 2
    /\ response.results[2].success

\* C7: the confidence and iou of every model.predict call lie in [0,1].
C7_ThresholdsInRange ==
    \A i \in DOMAIN predictCalls :
        /\ FormInRange(predictCalls[i].conf)
        /\ "iou" \in DOMAIN predictCalls[i] => FormInRange(predictCalls[i].iou)

\* C9: a /detect upload whose content type does not start with "image/" ends
\* with status 400, without any detector call.
C9_NonImageIs400 ==
    (/\ request.endpoint = "/detect"
     /\ FormInRange(request.confidence) /\ FormInRange(request.iou)
     /\ request.file.content_type = "text/plain") =>
        /\ response.status = 400
        /\ predictCalls = <<>>

(***************************************************************************)
(* The pure computations on their own: inputs drawn in the initial state,  *)
(* one action applying the computation                                     *)
(***************************************************************************)
MaxTotal == 1013
MaxOver == 500
MaxN == 25
MaxW1000 == 40
MaxArea == 3

NoRequest ==
    /\ request = [endpoint |-> "none"]
    /\ response = [status |-> 0]
    /\ predictCalls = <<>>
    /\ pc = <<>>
    /\ running = 0
    /\ predicting = {}
    /\ filesLeft = <<>>

Apply(fn, result) ==
    /\ args.fn = fn
    /\ ret.fn = "none"
    /\ ret' = result
    /\ UNCHANGED <<request, response, predictCalls, args,
                   pc, running, predicting, filesLeft>>

\* statistics of total detections of which good are labelled good
InitStats ==
    /\ NoRequest
    /\ \E total \in 0..MaxTotal : \E good \in 0..total :
           args = [fn |-> "statistics", good |-> good, total |-> total]
    /\ ret = [fn |-> "none"]

ComputeStatistics ==
    Apply("statistics",
          [fn |-> "statistics",
           statistics |-> StatisticsOf(args.good, args.total - args.good, 0,
                                       args.total)])

SpecStats == InitStats /\ [][ComputeStatistics]_vars

\* get_quality_grade on percentages from -MaxOver/100 to 100 + MaxOver/100
InitGrade ==
    /\ NoRequest
    /\ \E n \in (0 - MaxOver)..(10000 + MaxOver) :
           args = [fn |-> "grade", percentage |-> [num |-> n, den |-> 100]]
    /\ ret = [fn |-> "none"]

ComputeGrade ==
    Apply("grade", [fn |-> "grade", grade |-> get_quality_grade(args.percentage)])

SpecGrade == InitGrade /\ [][ComputeGrade]_vars

(***************************************************************************)
(* The loss formula of the module documentation, in exact rationals        *)
(***************************************************************************)
RMul(a, k) == [num |-> a.num * k, den |-> a.den]

RDivInt(a, k) == [num |-> a.num, den |-> a.den * k]

RDiv(a, b) == [num |-> a.num * b.den, den |-> a.den * b.num]

REq(a, b) == a.num * b.den = b.num * a.den

\* step 1: (N x W1000) / 1000; step 2: / S; step 3: x 10000 / 1000
LossBySteps(N, W1000, S) ==
    LET w_photo == RDivInt([num |-> N * W1000, den |-> 1], 1000)
        density == RDiv(w_photo, S)
    IN  RDivInt(RMul(density, 10000), 1000)

\* N x W1000 x 10 / S
LossOneLine(N, W1000, S) == RDiv([num |-> N * W1000 * 10, den |-> 1], S)

InitLoss ==
    /\ NoRequest
    /\ \E N \in 0..MaxN, W1000 \in 0..MaxW1000, a \in 1..MaxArea, d \in {1, 10} :
           args = [fn |-> "loss", N |-> N, W1000 |-> W1000,
                   S |-> [num |-> a, den |-> d]]
    /\ ret = [fn |-> "none"]

ComputeLoss ==
    Apply("loss",
          [fn |-> "loss",
           steps |-> LossBySteps(args.N, args.W1000, args.S),
           one_line |-> LossOneLine(args.N, args.W1000, args.S)])

SpecLoss == InitLoss /\ [][ComputeLoss]_vars

(***************************************************************************)
(* Claims about the pure computations                                      *)
(***************************************************************************)
GradeRank(grade) ==
    CASE grade = "Excellent (A)" -> 4
      [] grade = "Good (B)" -> 3
      [] grade = "Satisfactory (C)" -> 2
      [] grade = "Poor (D)" -> 1
      [] grade = "Very Poor (F)" -> 0

C5_OneLineEqualsSteps ==
    ret.fn = "loss" => REq(ret.steps, ret.one_line)

\* the Table A grade of a reported percentage, given in hundredths
TableA(hundredths) ==
    IF hundredths >= 9500 THEN "Excellent (A)"
    ELSE IF hundredths >= 8500 THEN "Good (B)"
    ELSE IF hundredths >= 7500 THEN "Satisfactory (C)"
    ELSE IF hundredths >= 6000 THEN "Poor (D)"
    ELSE "Very Poor (F)"

NumRequests == 3

Tasks == 0..NumRequests

Endpoints == {"/detect", "/detect-with-image", "/batch-detect"}

NoPure ==
    /\ request = [endpoint |-> "none"]
    /\ response = [status |-> 0]
    /\ predictCalls = <<>>
    /\ args = [fn |-> "none"]
    /\ ret = [fn |-> "none"]

InitConc ==
    /\ NoPure
    /\ pc = [t \in Tasks |-> IF t = 0 THEN [ep |-> "startup", at |-> "runnable"]
                             ELSE [ep |-> "none", at |-> "new"]]
    /\ running = {}
    /\ predicting = {}
    /\ filesLeft = [t \in Tasks |-> 0]

\* mutant: inference handed to a worker thread and awaited
LoopHolderThreadpool(t, at) ==
    IF at \in {"reading", "predicting", "done"} THEN {} ELSE {t}

\* who holds the event loop once task t has moved to position at
LoopHolder(t, at) ==
    IF at \in {"reading", "done"} THEN {} ELSE {t}

MoveTo(t, ep, at) ==
    /\ pc' = [pc EXCEPT ![t] = [ep |-> ep, at |-> at]]
    /\ running' = LoopHolder(t, at)

ConcFrame == UNCHANGED <<request, response, predictCalls, args, ret>>

\* the server accepts a request and creates its handler task
Arrive(t) ==
    /\ pc[0].at = "done"
    /\ pc[t].at = "new"
    /\ running = {}
    /\ \E ep \in Endpoints, n \in 1..MaxFiles :
        /\ ep # "/batch-detect" => n = 1
        /\ pc' = [pc EXCEPT ![t] = [ep |-> ep, at |-> "runnable"]]
        /\ filesLeft' = [filesLeft EXCEPT ![t] = n]
    /\ UNCHANGED <<running, predicting>>
    /\ ConcFrame

\* the handler runs from its first line to its first await
Start(t) ==
    /\ pc[t].ep \in Endpoints
    /\ pc[t].at = "runnable"
    /\ running = {}
    /\ \/ \E at \in {"reading", "read_done"} : MoveTo(t, pc[t].ep, at)
       \/ pc[t].ep = "/detect" /\ MoveTo(t, pc[t].ep, "done")
    /\ UNCHANGED <<predicting, filesLeft>>
    /\ ConcFrame

\* the awaited read of a suspended handler completes
ReadDone(t) ==
    /\ pc[t].at = "reading"
    /\ pc' = [pc EXCEPT ![t].at = "read_done"]
    /\ UNCHANGED <<running, predicting, filesLeft>>
    /\ ConcFrame

\* after one file: the next file of a batch, or the response
Continue(t) ==
    IF pc[t].ep = "/batch-detect" /\ filesLeft[t] > 1
    THEN /\ filesLeft' = [filesLeft EXCEPT ![t] = @ - 1]
         /\ \E at \in {"reading", "read_done"} : MoveTo(t, pc[t].ep, at)
    ELSE /\ filesLeft' = [filesLeft EXCEPT ![t] = 0]
         /\ MoveTo(t, pc[t].ep, "done")

\* the handler resumes with the bytes read: it decodes the image and calls
\* model.predict, or the decode raises
EnterPredict(t) ==
    /\ \/ pc[t].at = "read_done"
       \/ pc[t].ep = "startup" /\ pc[t].at = "runnable"
    /\ running \subseteq {t}
    /\ \/ /\ predicting' = predicting \cup {t}
          /\ MoveTo(t, pc[t].ep, "predicting")
          /\ UNCHANGED filesLeft
       \/ /\ pc[t].ep # "startup"
          /\ Continue(t)
          /\ UNCHANGED predicting
    /\ ConcFrame

\* model.predict returns or raises; the handler goes on to its next await
\* or to its end
LeavePredict(t) ==
    /\ pc[t].at = "predicting"
    /\ running \subseteq {t}
    /\ predicting' = predicting \ {t}
    /\ Continue(t)
    /\ ConcFrame

NextConc ==
    \E t \in Tasks :
        Arrive(t) \/ Start(t) \/ ReadDone(t) \/ EnterPredict(t) \/ LeavePredict(t)

SpecConc == InitConc /\ [][NextConc]_vars

\* C10 (SpecConc): under every interleaving of concurrent requests, at most
\* one model.predict invocation is in progress at any time, and it belongs to
\* the task that holds the event loop.
C10_PredictSerialized ==
    /\ Cardinality(predicting) <= 1
    /\ predicting # {} => running = predicting

\* one request is inside model.predict while two others are part-way through
\* their handlers, one suspended at its read and one with its read completed
C10_Witness ==
    \E t, u, v \in Tasks :
        /\ predicting = {t}
        /\ pc[u].at = "reading"
        /\ pc[v].at = "read_done"

====
